---------------------------- MODULE Spec2Model ----------------------------
(***************************************************************************)
(* A model of src/bin/hf_cache_manager.py: the HuggingFace cache manager   *)
(* (class HFCacheManager).                                                 *)
(*                                                                         *)
(* Strings are sequences of one-character strings, so that the string      *)
(* operations of the code (strip, startswith, replace, split, the glob     *)
(* patterns) are computed and not assumed.  A path is a sequence of names. *)
(* The file system is a function from a universe of candidate paths to     *)
(* what is there: nothing, a regular file or a directory.                  *)
(*                                                                         *)
(* Specifications:                                                         *)
(*   Spec        clean() over a cache holding stale artifacts              *)
(*   SpecVerify  verify_offline_ready() over cached models and datasets    *)
(*   SpecBatch   download_from_file() over a manifest                      *)
(*   SpecCodec   the directory-name encoding and its decoding              *)
(*   SpecRoot    the resolution of the cache root in __init__              *)
(*   SpecSize    get_cache_stats() over a tree with sizes and links        *)
(*   SpecParse   download_from_file() over one line of any shape           *)
(*   SpecLayout  __init__, clean, verify and status in any order           *)
(*   SpecEnv     setup_environment() and the fetches that follow it        *)
(***************************************************************************)
EXTENDS Integers, Sequences, FiniteSets, TLC

VARIABLES
    fs,      \* the file system: [Paths -> {"none", "file", "dir"}]
    pre,     \* the file system as it was when the last operation started
    last,    \* the last operation on the manager: its arguments and outcome
    prev,    \* the operation before it (a summary)
    batch,   \* download_from_file: the manifest, the loop position, the tally
    codec,   \* an identifier, its directory name and the name shown for it
    root,    \* __init__: the argument, the environment, the resolved root
    disk,    \* get_cache_stats: a tree with sizes and links, and the sizes found
    environ  \* os.environ as setup_environment writes it, and the fetches made

vars == <<fs, pre, last, prev, batch, codec, root, disk, environ>>

-----------------------------------------------------------------------------
(* Bounds of the model. *)

\* The most entries a cache holds beside its four fixed subdirectories.
MaxEntries == 4

\* The most lines of a manifest.
MaxLines == 4

\* The longest namespace or name drawn from the alphabet {a, -}.
MaxNameLen == 2

-----------------------------------------------------------------------------
(* String literals of the source. *)

s_lock == <<".", "l", "o", "c", "k">>
s_incomplete == <<".", "i", "n", "c", "o", "m", "p", "l", "e", "t", "e">>
s_safetensors == <<".", "s", "a", "f", "e", "t", "e", "n", "s", "o", "r", "s">>
s_bin == <<".", "b", "i", "n">>
s_datasets_dd == <<"d", "a", "t", "a", "s", "e", "t", "s", "-", "-">>
s_models_dd == <<"m", "o", "d", "e", "l", "s", "-", "-">>
s_dd == <<"-", "-">>
s_uuu == <<"_", "_", "_">>
s_slash == <<"/">>
s_hash == <<"#">>
s_dataset_colon == <<"d", "a", "t", "a", "s", "e", "t", ":">>
s_comma == <<",">>
s_snapshots == <<"s", "n", "a", "p", "s", "h", "o", "t", "s">>
s_hub == <<"h", "u", "b">>
s_datasets == <<"d", "a", "t", "a", "s", "e", "t", "s">>
s_assets == <<"a", "s", "s", "e", "t", "s">>
s_xet == <<"x", "e", "t">>

-----------------------------------------------------------------------------
(* Python's str operations. *)

\* The characters of the model in code-point order: str comparison, as
\* sorted() uses it, compares code points.
CharOrder ==
    <<"\t", "\n", " ", "#", ",", "-", ".", "/", "0", "1", "2", "3", "4", "5", "6", "7",
      "8", "9", ":", "_", "a", "b", "c", "d",
      "e", "f", "g", "h", "i", "j", "k", "l", "m", "n", "o", "p", "q", "r",
      "s", "t", "u", "v", "w", "x", "y", "z">>

Code(c) == CHOOSE i \in DOMAIN CharOrder : CharOrder[i] = c

\* s[n:] of Python.
Drop(s, n) == IF n >= Len(s) THEN <<>> ELSE SubSeq(s, n + 1, Len(s))

\* s[:n] of Python.
Take(s, n) == IF n >= Len(s) THEN s ELSE SubSeq(s, 1, n)

\* s.startswith(p)
StartsWith(s, p) == Len(p) <= Len(s) /\ SubSeq(s, 1, Len(p)) = p

\* fnmatch of the pattern "*" + suffix
EndsWith(s, p) == Len(p) <= Len(s) /\ SubSeq(s, Len(s) - Len(p) + 1, Len(s)) = p

\* old in s
Contains(s, old) == \E i \in 0 .. Len(s) : StartsWith(Drop(s, i), old)

\* s.replace(old, new): every occurrence, leftmost first, not overlapping.
RECURSIVE Replace(_, _, _)
Replace(s, old, new) ==
    IF Len(s) < Len(old) \/ old = <<>> THEN s
    ELSE IF StartsWith(s, old)
         THEN new \o Replace(Drop(s, Len(old)), old, new)
         ELSE <<Head(s)>> \o Replace(Tail(s), old, new)

\* s.split(sep): the fields between the occurrences of sep, empty ones kept.
RECURSIVE SplitFrom(_, _, _)
SplitFrom(s, sep, field) ==
    IF s = <<>> THEN <<field>>
    ELSE IF StartsWith(s, sep)
         THEN <<field>> \o SplitFrom(Drop(s, Len(sep)), sep, <<>>)
         ELSE SplitFrom(Tail(s), sep, Append(field, Head(s)))

Split(s, sep) == SplitFrom(s, sep, <<>>)

\* The whitespace str.strip() removes, among the characters of the model.
IsSpace(c) == c \in {" ", "\t", "\n"}

RECURSIVE LStrip(_)
LStrip(s) == IF s # <<>> /\ IsSpace(Head(s)) THEN LStrip(Tail(s)) ELSE s

RECURSIVE RStrip(_)
RStrip(s) ==
    IF s # <<>> /\ IsSpace(s[Len(s)]) THEN RStrip(SubSeq(s, 1, Len(s) - 1)) ELSE s

\* s.strip()
Strip(s) == RStrip(LStrip(s))

\* a < b on str: the first differing code point decides, a proper prefix is less.
RECURSIVE StrLess(_, _)
StrLess(a, b) ==
    IF b = <<>> THEN FALSE
    ELSE IF a = <<>> THEN TRUE
    ELSE IF Head(a) = Head(b) THEN StrLess(Tail(a), Tail(b))
    ELSE Code(Head(a)) < Code(Head(b))

\* sorted(S) for a set of paths that differ in their last name only.
RECURSIVE SortedPaths(_)
SortedPaths(S) ==
    IF S = {} THEN <<>>
    ELSE LET m == CHOOSE x \in S :
                    \A y \in S \ {x} : StrLess(x[Len(x)], y[Len(y)])
         IN  <<m>> \o SortedPaths(S \ {m})

\* The elements of a sequence.
Range(q) == {q[i] : i \in DOMAIN q}

\* How often x occurs in the sequence q.
Occurrences(q, x) == Cardinality({i \in DOMAIN q : q[i] = x})

\* The subsets of C of at most k elements.
RECURSIVE SubsetsUpTo(_, _)
SubsetsUpTo(C, k) ==
    IF k = 0 THEN {{}}
    ELSE LET R == SubsetsUpTo(C, k - 1)
         IN  R \cup {s \cup {c} : s \in R, c \in C}

-----------------------------------------------------------------------------
(* The file system. *)

\* The directory names of the model: the cache root and the working directory.
n_home == <<"h">>
n_cwd == <<"w">>

\* self.hf_home and its four subdirectories.
hf_home == <<n_home>>
hub_cache == hf_home \o <<s_hub>>
datasets_cache == hf_home \o <<s_datasets>>
assets_cache == hf_home \o <<s_assets>>
xet_cache == hf_home \o <<s_xet>>

CacheDirs == {hf_home, hub_cache, datasets_cache, assets_cache, xet_cache}

\* Names of entries found in a cache.
n_a_lock == <<"a">> \o s_lock
n_c_lock == <<"c">> \o s_lock
n_d_lock == <<"d">> \o s_lock
n_x_incomplete == <<"x">> \o s_incomplete
n_z_incomplete == <<"z">> \o s_incomplete
n_e_incomplete == <<"e">> \o s_incomplete
n_dsrepo_x == s_datasets_dd \o <<"x">>
n_dsrepo_a == s_datasets_dd \o <<"a">>
n_dsrepo_x_lock == s_datasets_dd \o <<"x">> \o s_lock
n_o_d == <<"o">> \o s_uuu \o <<"d">>
n_dsrepo_o_d == s_datasets_dd \o n_o_d
n_o_d_c == <<"o">> \o s_uuu \o <<"d", "_", "c">>
n_models_o_m == s_models_dd \o <<"o">> \o s_dd \o <<"m">>
n_s1 == <<"s", "1">>
n_l == <<"l">>
n_o == <<"o">>
n_m == <<"m">>
n_sub == <<"s", "u", "b">>
n_w_bin == <<"w">> \o s_bin
n_w_safetensors == <<"w">> \o s_safetensors

\* What a cache with stale artifacts may hold: each entry a path and a kind.
E(p, k) == [path |-> p, kind |-> k]

StaleCandidates ==
    { E(hf_home \o <<n_a_lock>>, "file"),
      E(hf_home \o <<n_a_lock>>, "dir"),
      E(datasets_cache \o <<n_c_lock>>, "file"),
      E(datasets_cache \o <<n_z_incomplete>>, "file"),
      E(hub_cache \o <<n_x_incomplete>>, "file"),
      E(hub_cache \o <<n_x_incomplete>>, "dir"),
      E(hub_cache \o <<n_dsrepo_x>>, "file"),
      E(hub_cache \o <<n_dsrepo_x>>, "dir"),
      E(hub_cache \o <<n_dsrepo_x, n_d_lock>>, "file"),
      E(hub_cache \o <<n_dsrepo_x, n_e_incomplete>>, "file"),
      E(hub_cache \o <<n_dsrepo_a>>, "file"),
      E(hub_cache \o <<n_dsrepo_a>>, "dir"),
      E(hub_cache \o <<n_dsrepo_x_lock>>, "file"),
      E(hub_cache \o <<n_o_d>>, "dir"),
      E(hub_cache \o <<n_dsrepo_o_d>>, "dir"),
      E(hub_cache \o <<n_models_o_m>>, "dir") }

\* What a cache and a working directory may hold when a model is verified.
VerifyCandidates ==
    { E(hub_cache \o <<n_models_o_m>>, "file"),
      E(hub_cache \o <<n_models_o_m>>, "dir"),
      E(hub_cache \o <<n_models_o_m, s_snapshots>>, "file"),
      E(hub_cache \o <<n_models_o_m, s_snapshots>>, "dir"),
      E(hub_cache \o <<n_models_o_m, s_snapshots, n_s1>>, "dir"),
      E(datasets_cache \o <<n_o_d>>, "dir"),
      E(datasets_cache \o <<n_o_d_c>>, "dir"),
      E(datasets_cache \o <<n_c_lock>>, "file"),
      E(<<n_cwd, n_l>>, "file"),
      E(<<n_cwd, n_l>>, "dir"),
      E(<<n_cwd, n_l, n_w_bin>>, "file"),
      E(<<n_cwd, n_l, n_w_safetensors>>, "file"),
      E(<<n_cwd, n_l, n_sub>>, "dir"),
      E(<<n_cwd, n_l, n_sub, n_w_bin>>, "file"),
      E(<<n_cwd, n_o>>, "dir"),
      E(<<n_cwd, n_o, n_m>>, "dir") }

\* The directories that are always there: the working directory, and the
\* cache root with its subdirectories, which __init__ creates.
FixedDirs == CacheDirs \cup {<<n_cwd>>}

Paths == FixedDirs \cup {e.path : e \in StaleCandidates \cup VerifyCandidates}

Parent(p) == SubSeq(p, 1, Len(p) - 1)

Name(p) == p[Len(p)]

\* p is strictly below the directory d.
Below(d, p) == Len(p) > Len(d) /\ SubSeq(p, 1, Len(d)) = d

\* Path.exists()
Exists(f, p) == p \in Paths /\ f[p] # "none"

\* Path.is_dir()
IsDir(f, p) == p \in Paths /\ f[p] = "dir"

\* A set of entries is a tree: one kind for a path, and a directory above it.
IsTree(S) ==
    /\ \A a \in S, b \in S : a.path = b.path => a.kind = b.kind
    /\ \A a \in S :
          \/ Parent(a.path) \in FixedDirs
          \/ E(Parent(a.path), "dir") \in S

\* The file system holding the fixed directories and the entries of S.
MakeFs(S) ==
    [p \in Paths |->
        IF p \in FixedDirs THEN "dir"
        ELSE IF \E e \in S : e.path = p
             THEN (CHOOSE e \in S : e.path = p).kind
             ELSE "none"]

\* Path.iterdir() / one level of a glob: the entries directly in d.
Children(f, d) == {p \in Paths : Len(p) = Len(d) + 1 /\ Below(d, p) /\ f[p] # "none"}

\* Path.rglob("*"): every entry below d.
Descendants(f, d) == {p \in Paths : Below(d, p) /\ f[p] # "none"}

\* Path.unlink() of each path of S, all of them files.
Unlinked(f, S) == [p \in Paths |-> IF p \in S THEN "none" ELSE f[p]]

\* shutil.rmtree(d): the directory and everything below it.
RmTree(f, d) == [p \in Paths |-> IF p = d \/ Below(d, p) THEN "none" ELSE f[p]]


-----------------------------------------------------------------------------
(* clean(): lock files, incomplete downloads, misplaced datasets. *)

\* list(d.rglob("*" + suffix)): the entries below d, files and directories
\* alike, whose name ends in the suffix.
RGlob(f, d, suffix) == {p \in Descendants(f, d) : EndsWith(Name(p), suffix)}

\* glob.glob(str(d / (prefix + "*"))): the entries directly in d whose name
\* starts with the prefix.
GlobPrefix(f, d, prefix) == {p \in Children(f, d) : StartsWith(Name(p), prefix)}

\* The mutant of UnlinkEach that counts the entries and removes none.
UnlinkEach_Keeps(f, S, dry) == {[fs |-> f, raised |-> FALSE]}

\* The mutant of UnlinkEach that removes the entries in a dry run too.
UnlinkEach_IgnoresDryRun(f, S, dry) ==
    IF \A p \in S : f[p] = "file"
    THEN {[fs |-> Unlinked(f, S), raised |-> FALSE]}
    ELSE {[fs |-> Unlinked(f, D), raised |-> TRUE] :
             D \in SUBSET {p \in S : f[p] = "file"}}

\* for x in S: if not dry_run: x.unlink().  unlink() of a directory raises;
\* rglob yields in the order of the directory listing, which the platform
\* chooses, so any of the files may have been removed before it.
UnlinkEach(f, S, dry) ==
    IF dry THEN {[fs |-> f, raised |-> FALSE]}
    ELSE IF \A p \in S : f[p] = "file"
         THEN {[fs |-> Unlinked(f, S), raised |-> FALSE]}
         ELSE {[fs |-> Unlinked(f, D), raised |-> TRUE] :
                  D \in SUBSET {p \in S : f[p] = "file"}}

\* for mp in q: if not dry_run: shutil.rmtree(mp), in the order of q.
\* rmtree() of a regular file raises.
RECURSIVE RmTreeEach(_, _, _)
RmTreeEach(f, q, dry) ==
    IF dry \/ q = <<>> THEN [fs |-> f, raised |-> FALSE]
    ELSE IF f[Head(q)] # "dir" THEN [fs |-> f, raised |-> TRUE]
    ELSE RmTreeEach(RmTree(f, Head(q)), Tail(q), dry)

\* What clean() leaves when an exception ends it: no count is returned.
CleanRaised(f, dry, locks, incs, mis) ==
    [fs |-> f, dry |-> dry, raised |-> TRUE, ret |-> -1,
     locks |-> locks, incompletes |-> incs, misplaced |-> mis]

\* The third pass of clean(), on the file system the second pass left.
CleanMisplaced(f, dry, locks, incs) ==
    LET mis == SortedPaths(GlobPrefix(f, hub_cache, s_datasets_dd))
        o3  == RmTreeEach(f, mis, dry)
    IN  IF o3.raised THEN CleanRaised(o3.fs, dry, locks, incs, mis)
        ELSE [fs |-> o3.fs, dry |-> dry, raised |-> FALSE,
              ret |-> Cardinality(locks) + Cardinality(incs) + Len(mis),
              locks |-> locks, incompletes |-> incs, misplaced |-> mis]

\* The second pass of clean(), on the file system the first pass left.
CleanIncompletes(f, dry, locks) ==
    LET incs == RGlob(f, hub_cache, s_incomplete)
    IN  { IF o2.raised THEN CleanRaised(o2.fs, dry, locks, incs, <<>>)
          ELSE CleanMisplaced(o2.fs, dry, locks, incs) :
             o2 \in UnlinkEach(f, incs, dry) }

\* clean(dry_run) on the file system f: the outcomes it may have.  Each
\* pass lists its entries after the pass before it has removed its own.
CleanOutcomes(f, dry) ==
    LET locks == RGlob(f, hf_home, s_lock)
    IN  UNION { IF o1.raised THEN {CleanRaised(o1.fs, dry, locks, {}, <<>>)}
                ELSE CleanIncompletes(o1.fs, dry, locks) :
                   o1 \in UnlinkEach(f, locks, dry) }

\* The summary of an operation kept as the one before the last.
Summary(r) ==
    [op |-> r.op, dry |-> "dry" \in DOMAIN r /\ r.dry, raised |-> r.raised,
     ret |-> r.ret]

NoOperation ==
    [op |-> "none", dry |-> FALSE, raised |-> FALSE, ret |-> 0,
     locks |-> {}, incompletes |-> {}, misplaced |-> <<>>]

\* hf.clean(dry_run=dry)
Clean(dry) ==
    \E o \in CleanOutcomes(fs, dry) :
        /\ fs' = o.fs
        /\ pre' = fs
        /\ last' = [op |-> "clean", dry |-> o.dry, raised |-> o.raised,
                    ret |-> o.ret, locks |-> o.locks,
                    incompletes |-> o.incompletes, misplaced |-> o.misplaced]
        /\ prev' = Summary(last)
        /\ UNCHANGED <<batch, codec, root, disk, environ>>

\* The parts of the state a specification does not use.
FsIdle == <<>>
BatchIdle == [pc |-> "idle"]
CodecIdle == [pc |-> "idle"]
RootIdle == [pc |-> "idle"]
DiskIdle == [pc |-> "idle"]
EnvironIdle == [pc |-> "idle"]

\* A cache of at most MaxEntries entries, as it may be after __init__.
Trees(C) == {S \in SubsetsUpTo(C, MaxEntries) : IsTree(S)}

Init ==
    /\ fs \in {MakeFs(S) : S \in Trees(StaleCandidates)}
    /\ pre = fs
    /\ last = NoOperation
    /\ prev = Summary(NoOperation)
    /\ batch = BatchIdle
    /\ codec = CodecIdle
    /\ root = RootIdle
    /\ disk = DiskIdle
    /\ environ = EnvironIdle

Next == \E dry \in BOOLEAN : Clean(dry)

Spec == Init /\ [][Next]_vars

-----------------------------------------------------------------------------
(* Properties of clean(). *)

\* r is a clean(dry_run=False) that returned.
CompletedClean(r) == r.op = "clean" /\ ~r.dry /\ ~r.raised

\* r is a clean(dry_run=True).
DryRunClean(r) == r.op = "clean" /\ r.dry

\* The stale artifacts of f, as one scan lists them.
Scan(f) ==
    [locks |-> RGlob(f, hf_home, s_lock),
     incompletes |-> RGlob(f, hub_cache, s_incomplete),
     misplaced |-> SortedPaths(GlobPrefix(f, hub_cache, s_datasets_dd))]

\* f holds a lock file, an incomplete download in hub/ or a misplaced dataset.
HasStale(f) ==
    \/ Scan(f).locks # {}
    \/ Scan(f).incompletes # {}
    \/ Scan(f).misplaced # <<>>

\* C1: clean is idempotent.  A clean(dry_run=False) that returns right
\* after a clean(dry_run=False) that returned, returns 0; and a
\* clean(dry_run=False) that returns, returns a positive count whenever the
\* cache held a stale artifact when it started.
C1_CleanIdempotent ==
    /\ (CompletedClean(prev) /\ CompletedClean(last)) => last.ret = 0
    /\ (CompletedClean(last) /\ HasStale(pre)) => last.ret > 0

\* Two cleans in a row have returned, the first one having removed something.
C1_Witness ==
    /\ CompletedClean(prev) /\ prev.ret > 0
    /\ CompletedClean(last)

\* C2: clean(dry_run=True) changes nothing in the file system, it does not
\* raise, and a scan after it lists the stale artifacts it reported.
C2_DryRunReadOnly ==
    DryRunClean(last) =>
        /\ fs = pre
        /\ ~last.raised
        /\ Scan(fs) = [locks |-> last.locks,
                       incompletes |-> last.incompletes,
                       misplaced |-> last.misplaced]

\* A dry run has reported stale artifacts of all three kinds.
C2_Witness ==
    /\ DryRunClean(last)
    /\ last.locks # {} /\ last.incompletes # {} /\ last.misplaced # <<>>

\* A name in the encoding of the dataset store: <namespace>___<name>.
IsDatasetEncoded(n) ==
    LET parts == Split(n, s_uuu)
    IN  Len(parts) = 2 /\ parts[1] # <<>> /\ parts[2] # <<>>

\* r is a clean(dry_run=False), whether it returned or raised.
RealClean(r) == r.op = "clean" /\ ~r.dry

\* C6: every entry directly in hub/ whose name follows the encoding of the
\* dataset store, <namespace>___<name>, is reported by the scan (a dry run)
\* exactly once as misplaced, and after a clean(dry_run=False) that entry
\* and everything below it no longer exist.
C6_MisplacedDatasets ==
    \A p \in Children(pre, hub_cache) :
        IsDatasetEncoded(Name(p)) =>
            /\ DryRunClean(last) => Occurrences(last.misplaced, p) = 1
            /\ RealClean(last) => ~Exists(fs, p) /\ Descendants(fs, p) = {}

-----------------------------------------------------------------------------
(* verify_offline_ready(): is a model, and a dataset, usable offline. *)

\* An Optional[str] argument: None, or a string.
None == [given |-> FALSE, value |-> <<>>]
Some(s) == [given |-> TRUE, value |-> s]

\* The truth value of an Optional[str]: None and "" are false.
Truthy(x) == x.given /\ x.value # <<>>

\* Path(s) for a string s: its names, read from the root when s starts
\* with "/" and from the working directory otherwise; empty names and "."
\* are dropped.
IsPathName(n) == n # <<>> /\ n # <<".">>

PathOf(s) ==
    IF StartsWith(s, s_slash)
    THEN SelectSeq(Split(s, s_slash), IsPathName)
    ELSE <<n_cwd>> \o SelectSeq(Split(s, s_slash), IsPathName)

\* any(d.glob("*" + suffix)): an entry directly in d with that suffix.
AnyGlobSuffix(f, d, suffix) == \E p \in Children(f, d) : EndsWith(Name(p), suffix)

\* The mutant of VerifyModel that takes an existing snapshots directory
\* for a snapshot.
VerifyModel_SnapshotsDirEnough(f, model_name) ==
    LET model_path == PathOf(model_name)
        cached == hub_cache \o <<s_models_dd \o Replace(model_name, s_slash, s_dd)>>
        snap_dir == cached \o <<s_snapshots>>
    IN  IF Exists(f, model_path)
        THEN IF \/ AnyGlobSuffix(f, model_path, s_safetensors)
                \/ AnyGlobSuffix(f, model_path, s_bin)
             THEN [raised |-> FALSE, ok |-> TRUE, diag |-> {"local model found"}]
             ELSE [raised |-> FALSE, ok |-> FALSE, diag |-> {"local path without model files"}]
        ELSE IF Exists(f, cached)
             THEN IF Exists(f, snap_dir)
                  THEN [raised |-> FALSE, ok |-> TRUE, diag |-> {"model cached"}]
                  ELSE [raised |-> FALSE, ok |-> FALSE, diag |-> {"cache dir without snapshots"}]
             ELSE [raised |-> FALSE, ok |-> FALSE, diag |-> {"model not cached"}]

\* The model check of verify_offline_ready.  iterdir() of a snapshots entry
\* that is a regular file raises.
VerifyModel(f, model_name) ==
    LET model_path == PathOf(model_name)
        safe_name == Replace(model_name, s_slash, s_dd)
        cached == hub_cache \o <<s_models_dd \o safe_name>>
        snap_dir == cached \o <<s_snapshots>>
    IN  IF Exists(f, model_path)
        THEN IF \/ AnyGlobSuffix(f, model_path, s_safetensors)
                \/ AnyGlobSuffix(f, model_path, s_bin)
             THEN [raised |-> FALSE, ok |-> TRUE, diag |-> {"local model found"}]
             ELSE [raised |-> FALSE, ok |-> FALSE, diag |-> {"local path without model files"}]
        ELSE IF Exists(f, cached)
             THEN IF Exists(f, snap_dir) /\ ~IsDir(f, snap_dir)
                  THEN [raised |-> TRUE, ok |-> FALSE, diag |-> {}]
                  ELSE IF Exists(f, snap_dir) /\ Children(f, snap_dir) # {}
                       THEN [raised |-> FALSE, ok |-> TRUE, diag |-> {"model cached"}]
                       ELSE [raised |-> FALSE, ok |-> FALSE,
                             diag |-> {"cache dir without snapshots"}]
             ELSE [raised |-> FALSE, ok |-> FALSE, diag |-> {"model not cached"}]

\* The mutant of VerifyDataset that skips the dataset once the model failed.
VerifyDataset_ShortCircuit(f, dataset_name, ok, diag) ==
    IF Truthy(dataset_name) /\ ok
    THEN IF GlobPrefix(f, datasets_cache,
                       Replace(dataset_name.value, s_slash, s_uuu)) # {}
         THEN [ok |-> ok, diag |-> diag \cup {"dataset cached"}]
         ELSE [ok |-> FALSE, diag |-> diag \cup {"dataset not cached"}]
    ELSE [ok |-> ok, diag |-> diag]

\* The dataset check of verify_offline_ready, after the model check left ok.
VerifyDataset(f, dataset_name, ok, diag) ==
    IF Truthy(dataset_name)
    THEN LET safe_ds == Replace(dataset_name.value, s_slash, s_uuu)
             matches == GlobPrefix(f, datasets_cache, safe_ds)
         IN  IF matches # {}
             THEN [ok |-> ok, diag |-> diag \cup {"dataset cached"}]
             ELSE [ok |-> FALSE, diag |-> diag \cup {"dataset not cached"}]
    ELSE [ok |-> ok, diag |-> diag]

\* verify_offline_ready(model_name, dataset_name) on the file system f.
VerifyOutcome(f, model_name, dataset_name) ==
    LET mc == VerifyModel(f, model_name)
    IN  IF mc.raised THEN [raised |-> TRUE, ret |-> FALSE, diag |-> mc.diag]
        ELSE LET dc == VerifyDataset(f, dataset_name, mc.ok, mc.diag)
             IN  [raised |-> FALSE, ret |-> dc.ok, diag |-> dc.diag]

\* The identifiers verified: a cached model, one that is not cached, a
\* local path, a subdirectory of it.
id_o_m == <<"o", "/", "m">>
id_q_m == <<"q", "/", "m">>
id_l == <<"l">>
id_l_sub == <<"l", "/", "s", "u", "b">>
id_o_d == <<"o", "/", "d">>
id_p_d == <<"p", "/", "d">>

ModelArgs == {id_o_m, id_q_m, id_l, id_l_sub}

DatasetArgs == {None, Some(<<>>), Some(id_o_d), Some(id_p_d)}

NoVerify ==
    [op |-> "none", model |-> <<>>, dataset |-> None,
     raised |-> FALSE, ret |-> FALSE, diag |-> {}]

\* hf.verify_offline_ready(model_name, dataset_name)
Verify(model_name, dataset_name) ==
    LET o == VerifyOutcome(fs, model_name, dataset_name)
    IN  /\ pre' = fs
        /\ last' = [op |-> "verify", model |-> model_name,
                    dataset |-> dataset_name, raised |-> o.raised,
                    ret |-> o.ret, diag |-> o.diag]
        /\ prev' = Summary(last)
        /\ UNCHANGED <<fs, batch, codec, root, disk, environ>>

InitVerify ==
    /\ fs \in {MakeFs(S) : S \in Trees(VerifyCandidates)}
    /\ pre = fs
    /\ last = NoVerify
    /\ prev = Summary(NoOperation)
    /\ batch = BatchIdle
    /\ codec = CodecIdle
    /\ root = RootIdle
    /\ disk = DiskIdle
    /\ environ = EnvironIdle

NextVerify == \E model_name \in ModelArgs, dataset_name \in DatasetArgs :
                  Verify(model_name, dataset_name)

SpecVerify == InitVerify /\ [][NextVerify]_vars

-----------------------------------------------------------------------------
(* Properties of verify_offline_ready(). *)

\* The directory d holds a weight file: an entry named *.safetensors or *.bin.
HasWeightFile(f, d) ==
    \E p \in Children(f, d) :
        EndsWith(Name(p), s_safetensors) \/ EndsWith(Name(p), s_bin)

\* The directory of the model-snapshot store for a model identifier.
ModelDir(id) == hub_cache \o <<s_models_dd \o Replace(id, s_slash, s_dd)>>

\* The model check as the specification states it.
ModelReady(f, id) ==
    IF Exists(f, PathOf(id))
    THEN HasWeightFile(f, PathOf(id))
    ELSE /\ IsDir(f, ModelDir(id))
         /\ IsDir(f, ModelDir(id) \o <<s_snapshots>>)
         /\ Children(f, ModelDir(id) \o <<s_snapshots>>) # {}

\* The dataset check as the specification states it: a prefix match.
DatasetReady(f, id) ==
    \E p \in Children(f, datasets_cache) :
        StartsWith(Name(p), Replace(id, s_slash, s_uuu))

\* A dataset identifier is supplied: an argument that is not None nor "".
Supplied(x) == x.given /\ x.value # <<>>

\* C8: verify_offline_ready returns True iff every requested check passes,
\* the model check being that of a local path with a weight file or else
\* of a models--<id> directory with a non-empty snapshots directory; a
\* model with no local path and no directory in hub/, and no dataset
\* argument, yields False with the model reported as not cached.
C8_VerifyResult ==
    last.op = "verify" =>
        /\ (~last.raised /\ last.ret) <=>
              /\ ModelReady(fs, last.model)
              /\ Supplied(last.dataset) => DatasetReady(fs, last.dataset.value)
        /\ ( /\ ~Exists(fs, PathOf(last.model))
             /\ ~Exists(fs, ModelDir(last.model))
             /\ last.dataset = None )
           => ~last.raised /\ ~last.ret /\ "model not cached" \in last.diag

\* A model found in the cache and a dataset found have been verified.
C8_Witness ==
    /\ last.op = "verify" /\ last.ret
    /\ Supplied(last.dataset)
    /\ "model cached" \in last.diag

\* C9: the dataset check is made only when a dataset is supplied, it is made
\* even when the model check failed, it passes iff an entry directly in
\* datasets/ has a name starting with the encoded identifier, and without a
\* dataset the result is that of the model check.
C9_DatasetCheck ==
    (last.op = "verify" /\ ~last.raised) =>
        /\ Supplied(last.dataset)
              <=> last.diag \cap {"dataset cached", "dataset not cached"} # {}
        /\ "dataset cached" \in last.diag
              <=> Supplied(last.dataset) /\ DatasetReady(fs, last.dataset.value)
        /\ ~Supplied(last.dataset) => last.ret = ModelReady(fs, last.model)

\* The model check failed and the dataset check passed on a prefix: no entry
\* has the encoded identifier as its whole name.
C9_Witness ==
    /\ last.op = "verify" /\ ~last.raised /\ ~last.ret
    /\ ~ModelReady(fs, last.model)
    /\ "dataset cached" \in last.diag
    /\ ~Exists(fs, datasets_cache \o <<Replace(last.dataset.value, s_slash, s_uuu)>>)

-----------------------------------------------------------------------------
(* setup_environment(): the variables it writes to os.environ.             *)

s_one == <<"1">>
s_zero == <<"0">>

\* str(path)
RECURSIVE PathStr(_)
PathStr(p) == IF p = <<>> THEN <<>> ELSE s_slash \o Head(p) \o PathStr(Tail(p))

OfflineFlags == {"HF_DATASETS_OFFLINE", "HF_HUB_OFFLINE", "TRANSFORMERS_OFFLINE"}

CacheVars ==
    {"HF_HOME", "HF_HUB_CACHE", "HF_XET_CACHE", "HF_ASSETS_CACHE",
     "HUGGINGFACE_HUB_CACHE", "HUGGINGFACE_ASSETS_CACHE", "HF_DATASETS_CACHE",
     "TRANSFORMERS_CACHE"}

ProgressVars == {"HF_HUB_DISABLE_PROGRESS_BARS", "HF_DATASETS_DISABLE_PROGRESS_BARS"}

EnvironNames == CacheVars \cup ProgressVars \cup OfflineFlags

\* The dictionary env of setup_environment: the names it holds and the
\* value of each.
EnvUpdateNames(offline) ==
    CacheVars \cup ProgressVars \cup (IF offline THEN OfflineFlags ELSE {})

EnvUpdateValue(n) ==
    CASE n = "HF_HOME" -> PathStr(hf_home)
      [] n \in {"HF_HUB_CACHE", "HUGGINGFACE_HUB_CACHE", "TRANSFORMERS_CACHE"} ->
            PathStr(hub_cache)
      [] n = "HF_XET_CACHE" -> PathStr(xet_cache)
      [] n \in {"HF_ASSETS_CACHE", "HUGGINGFACE_ASSETS_CACHE"} -> PathStr(assets_cache)
      [] n = "HF_DATASETS_CACHE" -> PathStr(datasets_cache)
      [] n \in ProgressVars -> s_one
      [] n \in OfflineFlags -> s_one

\* os.environ.update(env): the names of env get its values, every other
\* variable keeps what it had.
SetupEnvironment(e, offline) ==
    [n \in EnvironNames |->
        IF n \in EnvUpdateNames(offline) THEN Some(EnvUpdateValue(n)) ELSE e[n]]

\* The mode the fetch libraries run in under the environment e: offline
\* when the flag they read is "1".
FetchesOffline(e, flag) == e[flag] = Some(s_one)

\* os.environ and the record of the fetches after download_model (kind
\* "model") or download_dataset (kind "dataset") has run: the call sets the
\* environment with offline=False, then fetches under what that leaves.
AfterDownload(en, kind, ok) ==
    LET e == SetupEnvironment(en.vars, FALSE)
        flag == IF kind = "model" THEN "HF_HUB_OFFLINE" ELSE "HF_DATASETS_OFFLINE"
    IN  [en EXCEPT
           !.vars = e,
           !.call = [op |-> IF kind = "model" THEN "download_model"
                            ELSE "download_dataset",
                     offline |-> FALSE],
           !.fetches = Append(@, [kind |-> kind,
                                  offline |-> FetchesOffline(e, flag),
                                  ret |-> ok])]

\* os.environ of a process started with none of these variables set.
BareEnviron ==
    [vars |-> [n \in EnvironNames |-> None],
     call |-> [op |-> "none", offline |-> FALSE],
     fetches |-> <<>>]

-----------------------------------------------------------------------------
(* download_from_file(): the models and datasets a manifest lists. *)

\* text.splitlines(), the line feed being the only line boundary among the
\* characters of the model.
RECURSIVE SplitLinesFrom(_, _)
SplitLinesFrom(s, cur) ==
    IF s = <<>> THEN (IF cur = <<>> THEN <<>> ELSE <<cur>>)
    ELSE IF Head(s) = "\n" THEN <<cur>> \o SplitLinesFrom(Tail(s), <<>>)
    ELSE SplitLinesFrom(Tail(s), Append(cur, Head(s)))

SplitLines(s) == SplitLinesFrom(s, <<>>)

\* "\n".join(lines)
RECURSIVE JoinLines(_)
JoinLines(lines) ==
    IF lines = <<>> THEN <<>>
    ELSE IF Len(lines) = 1 THEN lines[1]
    ELSE lines[1] \o <<"\n">> \o JoinLines(Tail(lines))

\* The lines manifests are written from: a blank line, a comment, a model,
\* a dataset with a configuration and a split, a dataset with a split only.
line_blank == <<>>
line_comment == <<" ", "#", "c">>
line_model == <<" ", "o", "/", "m", " ">>
line_dataset == s_dataset_colon \o <<"o", "/", "d", ",", "c", ",", "t">>
line_dataset_split == s_dataset_colon \o <<"o", "/", "d", ",", ",", "t">>

LineSet == {line_blank, line_comment, line_model, line_dataset, line_dataset_split}

\* The sequences of at most n elements of S.
RECURSIVE SeqsUpTo(_, _)
SeqsUpTo(S, n) ==
    IF n = 0 THEN {<<>>}
    ELSE LET R == SeqsUpTo(S, n - 1)
         IN  R \cup {Append(q, x) : q \in R, x \in S}

\* What is at the manifest path: nothing, a directory, or a file with a text.
Manifests ==
    {[kind |-> "none", text |-> <<>>], [kind |-> "dir", text |-> <<>>]}
    \cup {[kind |-> "file", text |-> JoinLines(q)] : q \in SeqsUpTo(LineSet, MaxLines)}

\* What the external fetch (snapshot_download, load_dataset) may do.
FetchOutcomes == {"ok", "error"}

\* The mutant of DownloadModel without its try/except.
DownloadModel_NoExcept(outcome) ==
    [raised |-> outcome = "error", ok |-> outcome = "ok"]

\* download_model: True when snapshot_download returns, False when it
\* raises an Exception.
DownloadModel(outcome) == [raised |-> FALSE, ok |-> outcome = "ok"]

\* download_dataset: True when load_dataset returns, False when it raises
\* an Exception.
DownloadDataset(outcome) == [raised |-> FALSE, ok |-> outcome = "ok"]

\* The mutant of FieldOrNone without the test that the field is not empty.
FieldOrNone_KeepsEmpty(parts, k) ==
    IF Len(parts) > k THEN Some(Strip(parts[k + 1])) ELSE None

\* parts[k].strip() if len(parts) > k and parts[k].strip() else None
\* (parts counted from 0 in the code, from 1 here).
FieldOrNone(parts, k) ==
    IF Len(parts) > k /\ Strip(parts[k + 1]) # <<>>
    THEN Some(Strip(parts[k + 1]))
    ELSE None

\* The call a stripped manifest line makes.
LineCall(line) ==
    IF StartsWith(line, s_dataset_colon)
    THEN LET parts == Split(Drop(line, Len(s_dataset_colon)), s_comma)
         IN  [kind |-> "dataset", name |-> Strip(parts[1]),
              config |-> FieldOrNone(parts, 1), split |-> FieldOrNone(parts, 2)]
    ELSE [kind |-> "model", name |-> line, config |-> None, split |-> None]

\* The mutant of Tally that leaves a failure uncounted.
Tally_DropsFailure(successes, failures, ok) ==
    IF ok THEN <<successes + 1, failures>> ELSE <<successes, failures>>

\* if ok: successes += 1 else: failures += 1
Tally(successes, failures, ok) ==
    IF ok THEN <<successes + 1, failures>> ELSE <<successes, failures + 1>>

\* The mutant of EnterOutcome without the test that the manifest exists:
\* read_text() of a missing file raises.
EnterOutcome_NoExistsTest(manifest) ==
    IF manifest.kind = "file"
    THEN [pc |-> "loop", token |-> TRUE, lines |-> SplitLines(manifest.text),
          ret |-> <<0, 0>>]
    ELSE [pc |-> "raised", token |-> TRUE, lines |-> <<>>, ret |-> <<0, 0>>]

\* download_from_file up to its loop: a missing manifest returns (0, 1);
\* otherwise the token is ensured and the text read, which raises for a
\* directory.
EnterOutcome(manifest) ==
    IF manifest.kind = "none"
    THEN [pc |-> "returned", token |-> FALSE, lines |-> <<>>, ret |-> <<0, 1>>]
    ELSE IF manifest.kind = "dir"
    THEN [pc |-> "raised", token |-> TRUE, lines |-> <<>>, ret |-> <<0, 0>>]
    ELSE [pc |-> "loop", token |-> TRUE, lines |-> SplitLines(manifest.text),
          ret |-> <<0, 0>>]

\* The call of download_from_file(filepath).
DownloadFromFile_Enter ==
    /\ batch.pc = "call"
    /\ LET o == EnterOutcome(batch.manifest)
       IN  batch' = [batch EXCEPT !.pc = o.pc, !.token = o.token,
                                  !.lines = o.lines, !.ret = o.ret]
    /\ UNCHANGED <<fs, pre, last, prev, codec, root, disk, environ>>

\* One turn of the loop over the lines: a blank line or a comment is
\* skipped, any other line makes a call and is counted.  The call
\* (download_model or download_dataset) sets the environment before it
\* fetches.
DownloadFromFile_Line ==
    /\ batch.pc = "loop"
    /\ batch.i <= Len(batch.lines)
    /\ LET line == Strip(batch.lines[batch.i])
       IN  \/ /\ line = <<>> \/ StartsWith(line, s_hash)
              /\ batch' = [batch EXCEPT !.i = @ + 1]
              /\ UNCHANGED environ
           \/ /\ ~(line = <<>> \/ StartsWith(line, s_hash))
              /\ \E outcome \in FetchOutcomes :
                    LET call == LineCall(line)
                        r == IF call.kind = "dataset"
                             THEN DownloadDataset(outcome)
                             ELSE DownloadModel(outcome)
                        t == Tally(batch.successes, batch.failures, r.ok)
                        done == Append(batch.calls,
                                       [line |-> batch.i, call |-> call,
                                        outcome |-> outcome])
                    IN  /\ IF r.raised
                           THEN batch' = [batch EXCEPT !.pc = "raised",
                                                       !.calls = done]
                           ELSE batch' = [batch EXCEPT !.i = @ + 1, !.calls = done,
                                                       !.successes = t[1],
                                                       !.failures = t[2]]
                        /\ environ' = AfterDownload(environ, call.kind, r.ok)
    /\ UNCHANGED <<fs, pre, last, prev, codec, root, disk>>

\* The return after the last line.
DownloadFromFile_Return ==
    /\ batch.pc = "loop"
    /\ batch.i > Len(batch.lines)
    /\ batch' = [batch EXCEPT !.pc = "returned",
                              !.ret = <<batch.successes, batch.failures>>]
    /\ UNCHANGED <<fs, pre, last, prev, codec, root, disk, environ>>

InitBatch ==
    /\ fs = FsIdle
    /\ pre = FsIdle
    /\ last = NoOperation
    /\ prev = Summary(NoOperation)
    /\ \E manifest \in Manifests :
          batch = [pc |-> "call", manifest |-> manifest, token |-> FALSE,
                   lines |-> <<>>, i |-> 1, successes |-> 0, failures |-> 0,
                   calls |-> <<>>, ret |-> <<0, 0>>]
    /\ codec = CodecIdle
    /\ root = RootIdle
    /\ disk = DiskIdle
    /\ environ = BareEnviron

NextBatch ==
    \/ DownloadFromFile_Enter
    \/ DownloadFromFile_Line
    \/ DownloadFromFile_Return

SpecBatch == InitBatch /\ [][NextBatch]_vars

-----------------------------------------------------------------------------
(* Properties of download_from_file(). *)

\* The lines of the manifest.
ManifestLines == SplitLines(batch.manifest.text)

\* A line that is neither blank nor a comment.
IsEntry(raw) == Strip(raw) # <<>> /\ ~StartsWith(Strip(raw), s_hash)

IsEntryIndex(k) == IsEntry(ManifestLines[k])

\* The entries among the first n lines, in the order of the manifest.
EntriesUpTo(n) == SelectSeq([k \in 1 .. n |-> k], IsEntryIndex)

\* The calls made with the given outcome.
CallsWith(outcome) == {j \in DOMAIN batch.calls : batch.calls[j].outcome = outcome}

\* download_from_file runs or has returned, over a manifest that is a file.
OverManifest == batch.manifest.kind = "file" /\ batch.pc # "call"

\* C3: batch ingestion continues on error.  The calls made so far are those
\* of the entries among the lines read so far, one call an entry, in the
\* order of the manifest, each to the fetch of its kind; no fetch failure
\* ends the batch, and it returns only after the last line.
C3_ContinueOnError ==
    OverManifest =>
        /\ batch.pc # "raised"
        /\ Len(batch.calls) = Len(EntriesUpTo(batch.i - 1))
        /\ \A j \in DOMAIN batch.calls :
              /\ batch.calls[j].line = EntriesUpTo(batch.i - 1)[j]
              /\ batch.calls[j].call.kind =
                    IF StartsWith(Strip(ManifestLines[batch.calls[j].line]),
                                  s_dataset_colon)
                    THEN "dataset" ELSE "model"
        /\ batch.pc = "returned" => batch.i = Len(ManifestLines) + 1

\* The batch has returned after a fetch failed and later entries, a model
\* and a dataset, were fetched.
C3_Witness ==
    /\ OverManifest /\ batch.pc = "returned"
    /\ \E j \in DOMAIN batch.calls :
          /\ batch.calls[j].outcome = "error"
          /\ \E k \in DOMAIN batch.calls :
                k > j /\ batch.calls[k].call.kind = "model"
          /\ \E k \in DOMAIN batch.calls :
                k > j /\ batch.calls[k].call.kind = "dataset"

\* C4: the tally is exact.  Over a manifest that is a file, the tally
\* returned counts the fetches that succeeded and those that failed, the two
\* add up to the number of lines that are neither blank nor comments, and
\* neither counter ever decreases.
C4_TallyExact ==
    /\ [](OverManifest /\ batch.pc = "returned" =>
            /\ batch.ret[1] = Cardinality(CallsWith("ok"))
            /\ batch.ret[2] = Cardinality(CallsWith("error"))
            /\ batch.ret[1] + batch.ret[2] =
                  Cardinality({k \in DOMAIN ManifestLines : IsEntryIndex(k)}))
    /\ [][ /\ batch'.successes >= batch.successes
           /\ batch'.failures >= batch.failures ]_vars

\* A manifest with a skipped line, two entries fetched and a model that
\* failed has returned the tally (2, 1).
C4_Witness ==
    /\ OverManifest /\ batch.pc = "returned"
    /\ batch.ret = <<2, 1>>
    /\ \E k \in DOMAIN ManifestLines : ~IsEntryIndex(k)
    /\ \E j \in CallsWith("error") : batch.calls[j].call.kind = "model"
    /\ \E j \in CallsWith("ok") : batch.calls[j].call.kind = "dataset"

\* No manifest at the path, and download_from_file has been called.
NoManifest == batch.manifest.kind = "none" /\ batch.pc # "call"

\* C5 as claimed: without a manifest the call fails, no fetch is made and
\* no tally is returned, so that no run over a manifest returns what the
\* call without a manifest does.
C5_Original ==
    /\ NoManifest => batch.pc = "raised" /\ batch.calls = <<>>
    /\ (OverManifest /\ batch.pc = "returned") =>
          batch.ret # EnterOutcome([kind |-> "none", text |-> <<>>]).ret

\* C5 as amended: without a manifest the call returns the tally (0, 1) at
\* once: no fetch is made and no token is asked for; a run over a manifest
\* without entries returns another tally.
C5_NotFoundTally ==
    /\ NoManifest =>
          /\ batch.pc = "returned" /\ batch.ret = <<0, 1>>
          /\ batch.calls = <<>> /\ ~batch.token
    /\ (OverManifest /\ batch.pc = "returned" /\ batch.calls = <<>>) =>
          batch.ret # <<0, 1>>

\* download_from_file has returned for a path without a manifest.
C5_Witness == NoManifest /\ batch.pc = "returned"

-----------------------------------------------------------------------------
(* The directory name of a model, and the name shown for a directory. *)

\* f"models--{model_name.replace('/', '--')}": the directory of a model in
\* hub/, as verify_offline_ready looks it up.
EncodeModel(model_name) == s_models_dd \o Replace(model_name, s_slash, s_dd)

\* Path(s).name.replace("models--", "").replace("--", "/"): the name
\* print_cache_status shows for a directory of hub/.
DecodeModel(dir_name) == Replace(Replace(dir_name, s_models_dd, <<>>), s_dd, s_slash)

\* The strings over S of 1 to n characters.
RECURSIVE StringsUpTo(_, _)
StringsUpTo(S, n) ==
    IF n = 0 THEN {}
    ELSE LET R == StringsUpTo(S, n - 1)
         IN  {<<c>> : c \in S} \cup {Append(q, c) : q \in R, c \in S}

\* A namespace or a name as the hub allows it: it neither starts nor ends
\* with "-".
IsHubName(n) == n # <<>> /\ Head(n) # "-" /\ n[Len(n)] # "-"

n_models == <<"m", "o", "d", "e", "l", "s">>
n_my_models == <<"m", "y", "-", "m", "o", "d", "e", "l", "s">>

\* The namespaces and names of the model.
NameStrings ==
    {n \in StringsUpTo({"a", "b", "-"}, MaxNameLen) : IsHubName(n)}
    \cup {n_models, n_my_models}

\* The directory of the model is made (by the fetch) under its encoded name.
Encode ==
    /\ codec.pc = "named"
    /\ codec' = [codec EXCEPT !.pc = "encoded",
                              !.dir = EncodeModel(codec.ident)]
    /\ UNCHANGED <<fs, pre, last, prev, batch, root, disk, environ>>

\* print_cache_status shows the directory.
Decode ==
    /\ codec.pc = "encoded"
    /\ codec' = [codec EXCEPT !.pc = "shown", !.shown = DecodeModel(codec.dir)]
    /\ UNCHANGED <<fs, pre, last, prev, batch, root, disk, environ>>

InitCodec ==
    /\ fs = FsIdle
    /\ pre = FsIdle
    /\ last = NoOperation
    /\ prev = Summary(NoOperation)
    /\ batch = BatchIdle
    /\ \E namespace \in NameStrings, name \in NameStrings :
          codec = [pc |-> "named", namespace |-> namespace, name |-> name,
                   ident |-> namespace \o s_slash \o name,
                   dir |-> <<>>, shown |-> <<>>]
    /\ root = RootIdle
    /\ disk = DiskIdle
    /\ environ = EnvironIdle

NextCodec == Encode \/ Decode

SpecCodec == InitCodec /\ [][NextCodec]_vars

\* C7: the model name round trip.  For a namespace and a name without "/"
\* and without "--", the name shown for the directory
\* models--<namespace>--<name> is <namespace>/<name>.
C7_RoundTrip ==
    ( /\ codec.pc = "shown"
      /\ ~Contains(codec.namespace, s_slash) /\ ~Contains(codec.name, s_slash)
      /\ ~Contains(codec.namespace, s_dd) /\ ~Contains(codec.name, s_dd) )
    => codec.shown = codec.namespace \o s_slash \o codec.name

-----------------------------------------------------------------------------
(* __init__: the resolution of the cache root. *)

s_unknown == <<"u", "n", "k", "n", "o", "w", "n">>
s_tpl_account == <<"/", "l", "e", "o", "n", "a", "r", "d", "o", "_", "w", "o", "r", "k", "/">>
s_tpl_user == <<"/", "u", "s", "e", "r", "s", "/">>
s_tpl_tail ==
    <<"/", "o", "e", "l", "l", "m", "-", "e", "v", "a", "l", "s", "/", "h", "f",
      "_", "d", "a", "t", "a">>

\* _DEFAULT_HF_ROOT.format(account=account, user=user)
DefaultHfRoot(account, user) ==
    s_tpl_account \o account \o s_tpl_user \o user \o s_tpl_tail

\* os.environ.get(name, default)
EnvGet(env, name, default) == IF env[name].given THEN env[name].value ELSE default

\* The mutant of ResolveRoot that reads HF_HOME before the argument.
ResolveRoot_EnvFirst(arg, env) ==
    IF Truthy(env["HF_HOME"])
    THEN [raised |-> FALSE, hf_home |-> PathOf(env["HF_HOME"].value)]
    ELSE IF Truthy(arg)
    THEN [raised |-> FALSE, hf_home |-> PathOf(arg.value)]
    ELSE LET username == EnvGet(env, "USER", s_unknown)
             account == EnvGet(env, "ACCOUNT", EnvGet(env, "SLURM_ACCOUNT", <<>>))
         IN  IF account = <<>>
             THEN [raised |-> TRUE, hf_home |-> <<>>]
             ELSE [raised |-> FALSE,
                   hf_home |-> PathOf(DefaultHfRoot(account, username))]

\* The root __init__ resolves: the argument, else HF_HOME, else the default
\* of the account and the user; ValueError without an account.
ResolveRoot(arg, env) ==
    IF Truthy(arg)
    THEN [raised |-> FALSE, hf_home |-> PathOf(arg.value)]
    ELSE IF Truthy(env["HF_HOME"])
    THEN [raised |-> FALSE, hf_home |-> PathOf(env["HF_HOME"].value)]
    ELSE LET username == EnvGet(env, "USER", s_unknown)
             account == EnvGet(env, "ACCOUNT", EnvGet(env, "SLURM_ACCOUNT", <<>>))
         IN  IF account = <<>>
             THEN [raised |-> TRUE, hf_home |-> <<>>]
             ELSE [raised |-> FALSE,
                   hf_home |-> PathOf(DefaultHfRoot(account, username))]

\* The directories __init__ makes: the root and its four subdirectories.
MadeDirs(h) == {h, h \o <<s_hub>>, h \o <<s_datasets>>, h \o <<s_assets>>, h \o <<s_xet>>}

\* HFCacheManager(hf_home=arg)
Construct ==
    /\ root.pc = "call"
    /\ LET r == ResolveRoot(root.arg, root.env)
       IN  root' = [root EXCEPT
                      !.pc = IF r.raised THEN "raised" ELSE "constructed",
                      !.hf_home = r.hf_home,
                      !.made = IF r.raised THEN {} ELSE MadeDirs(r.hf_home)]
    /\ UNCHANGED <<fs, pre, last, prev, batch, codec, disk, environ>>

\* The environment variables __init__ reads.
EnvNames == {"HF_HOME", "USER", "ACCOUNT", "SLURM_ACCOUNT"}

\* What an argument or a variable may hold: nothing, "", or a value.
v_arg == <<"/", "e">>
v_home == <<"/", "g">>
v_user == <<"u">>
v_account == <<"p">>
v_slurm == <<"q">>

Values(v) == {None, Some(<<>>), Some(v)}

Environments ==
    {[n \in EnvNames |->
        CASE n = "HF_HOME" -> h [] n = "USER" -> u
          [] n = "ACCOUNT" -> a [] n = "SLURM_ACCOUNT" -> q] :
       h \in Values(v_home), u \in Values(v_user),
       a \in Values(v_account), q \in Values(v_slurm)}

InitRoot ==
    /\ fs = FsIdle
    /\ pre = FsIdle
    /\ last = NoOperation
    /\ prev = Summary(NoOperation)
    /\ batch = BatchIdle
    /\ codec = CodecIdle
    /\ disk = DiskIdle
    /\ environ = EnvironIdle
    /\ \E arg \in Values(v_arg), env \in Environments :
          root = [pc |-> "call", arg |-> arg, env |-> env,
                  hf_home |-> <<>>, made |-> {}]

NextRoot == Construct

SpecRoot == InitRoot /\ [][NextRoot]_vars

\* An explicit path is given, or a variable is set: to a string that is
\* not empty.
Given(x) == x.given /\ x.value # <<>>

\* The defaults the account and the user may give.
DefaultRoots(env) ==
    {PathOf(DefaultHfRoot(a.value, u)) :
        a \in {x \in {env["ACCOUNT"], env["SLURM_ACCOUNT"]} : Given(x)},
        u \in {s_unknown} \cup {x.value : x \in {y \in {env["USER"]} : y.given}}}

\* C10: the cache root is the first of the explicit argument, HF_HOME and
\* the default built from the account and the user.  With an explicit path
\* the root is that path whatever the environment holds; without one and
\* with HF_HOME set the root is HF_HOME whatever USER, ACCOUNT and
\* SLURM_ACCOUNT hold; with neither, a root that is resolved is the default.
C10_RootResolution ==
    root.pc # "call" =>
        /\ Given(root.arg) =>
              root.pc = "constructed" /\ root.hf_home = PathOf(root.arg.value)
        /\ (~Given(root.arg) /\ Given(root.env["HF_HOME"])) =>
              /\ root.pc = "constructed"
              /\ root.hf_home = PathOf(root.env["HF_HOME"].value)
        /\ (~Given(root.arg) /\ ~Given(root.env["HF_HOME"])
              /\ root.pc = "constructed") =>
              root.hf_home \in DefaultRoots(root.env)

\* A manager has been constructed with an explicit path while HF_HOME, the
\* user and the account were all set.
C10_Witness ==
    /\ root.pc = "constructed"
    /\ Given(root.arg)
    /\ \A n \in EnvNames : Given(root.env[n])
    /\ root.hf_home # PathOf(root.env["HF_HOME"].value)

\* The account identifier is available: ACCOUNT or SLURM_ACCOUNT is set to
\* a string that is not empty.
AccountAvailable(env) == Given(env["ACCOUNT"]) \/ Given(env["SLURM_ACCOUNT"])

\* The user identity is available: USER is set to a string that is not empty.
UserAvailable(env) == Given(env["USER"])

\* C11: the construction fails with a configuration error exactly when no
\* explicit path is given, HF_HOME is not set, and the user identity and the
\* account identifier are not both available; a construction that fails has
\* made no directory.
C11_ConfigurationError ==
    root.pc # "call" =>
        /\ root.pc = "raised" <=>
              /\ ~Given(root.arg)
              /\ ~Given(root.env["HF_HOME"])
              /\ ~(UserAvailable(root.env) /\ AccountAvailable(root.env))
        /\ root.pc = "raised" => root.made = {}

-----------------------------------------------------------------------------
(* get_cache_stats: the sizes of the two stores.  The tree of this part    *)
(* has sizes and symbolic links: a node is nothing, a regular file with a  *)
(* size, a directory, or a link with the path it points to.                *)

Absent == [kind |-> "none", size |-> 0, target |-> <<>>]
File(n) == [kind |-> "file", size |-> n, target |-> <<>>]
Dir == [kind |-> "dir", size |-> 0, target |-> <<>>]
Link(t) == [kind |-> "link", size |-> 0, target |-> t]

\* The candidate entries: blobs/ and snapshots/ of a model, files in them,
\* a file at the top of each store and a file outside both stores.
n_b == <<"b">>
n_f == <<"f">>
n_s == <<"s">>
n_g == <<"g">>
n_d == <<"d">>
p_blobs == hub_cache \o <<n_b>>
p_blob_f == p_blobs \o <<n_f>>
p_snap == hub_cache \o <<n_s>>
p_snap_f == p_snap \o <<n_f>>
p_hub_g == hub_cache \o <<n_g>>
p_ds_d == datasets_cache \o <<n_d>>
p_out == assets_cache \o <<n_o>>
p_missing == assets_cache \o <<n_m>>

DiskPaths ==
    {hf_home, hub_cache, datasets_cache, assets_cache,
     p_blobs, p_blob_f, p_snap, p_snap_f, p_hub_g, p_ds_d, p_out, p_missing}

\* The entries of a tree are the entries of real directories.
IsDiskTree(t) ==
    \A p \in DiskPaths :
        (t[p].kind # "none" /\ Len(p) > 1) => t[Parent(p)].kind = "dir"

\* The trees get_cache_stats is run on: at most MaxEntries entries beside
\* the fixed directories, of which the two stores may be missing.
DiskTrees ==
    {t \in
       {[p \in DiskPaths |->
           CASE p = hf_home -> Dir
             [] p = assets_cache -> Dir
             [] p = hub_cache -> h
             [] p = datasets_cache -> ds
             [] p = p_blobs -> b
             [] p = p_blob_f -> bf
             [] p = p_snap -> s
             [] p = p_snap_f -> sf
             [] p = p_hub_g -> g
             [] p = p_ds_d -> d
             [] p = p_out -> o
             [] p = p_missing -> Absent] :
          h \in {Absent, Dir},
          ds \in {Absent, Dir},
          b \in {Absent, Dir, Link(p_snap)},
          bf \in {Absent, File(1), File(2)},
          s \in {Absent, Dir, Link(p_blobs), Link(p_snap)},
          sf \in {Absent, File(1), Link(p_blob_f), Link(p_out), Link(p_missing)},
          g \in {Absent, File(2), Link(p_blob_f), Link(p_snap_f)},
          d \in {Absent, File(1), Link(p_blob_f)},
          o \in {Absent, File(2)}} :
       /\ IsDiskTree(t)
       /\ Cardinality({p \in DiskPaths \ FixedDirs : t[p].kind # "none"}) <= MaxEntries}

\* The links a lookup may pass before the platform gives up (ELOOP): more
\* than the links of any tree here.
LinkFuel == Cardinality(DiskPaths)

\* The entry a path leads to, its links followed component by component;
\* <<>> when there is none (ENOENT, ENOTDIR, ELOOP).
RECURSIVE Canon(_, _, _)
Canon(t, p, fuel) ==
    IF fuel = 0 THEN <<>>
    ELSE IF Len(p) = 1 THEN (IF p = hf_home THEN p ELSE <<>>)
    ELSE LET par == Canon(t, Parent(p), fuel)
             q == par \o <<Name(p)>>
         IN  IF par = <<>> \/ q \notin DiskPaths THEN <<>>
             ELSE IF t[par].kind # "dir" \/ t[q].kind = "none" THEN <<>>
             ELSE IF t[q].kind = "link" THEN Canon(t, t[q].target, fuel - 1)
             ELSE q

\* os.stat(p): the node a path leads to, Absent when the lookup fails.
Stat(t, p) ==
    LET q == Canon(t, p, LinkFuel) IN IF q = <<>> THEN Absent ELSE t[q]

\* path.rglob("*"): every entry below the directory, the entries of a
\* directory that a link points to left out (pathlib does not walk links).
RGlobAll(t, d) ==
    LET q == Canon(t, d, LinkFuel)
    IN  IF q = <<>> \/ t[q].kind # "dir" THEN {}
        ELSE {p \in DiskPaths : Below(q, p) /\ t[p].kind # "none"}

RECURSIVE SumSizes(_, _)
SumSizes(t, S) ==
    IF S = {} THEN 0
    ELSE LET e == CHOOSE x \in S : TRUE
         IN  (IF Stat(t, e).kind = "file" THEN Stat(t, e).size ELSE 0)
                 + SumSizes(t, S \ {e})

\* _size(path): 0 when the path does not exist, else the st_size of every
\* entry below it for which is_file() holds; is_file() and stat() follow
\* links.
Size(t, path) ==
    IF Stat(t, path).kind = "none" THEN 0 ELSE SumSizes(t, RGlobAll(t, path))

\* get_cache_stats()
GetCacheStats ==
    /\ disk.pc = "call"
    /\ LET hub == Size(disk.tree, hub_cache)
           ds == Size(disk.tree, datasets_cache)
       IN  disk' = [disk EXCEPT !.pc = "returned", !.hub_size = hub,
                                !.datasets_size = ds, !.total_size = hub + ds]
    /\ UNCHANGED <<fs, pre, last, prev, batch, codec, root, environ>>

InitSize ==
    /\ fs = FsIdle
    /\ pre = FsIdle
    /\ last = NoOperation
    /\ prev = Summary(NoOperation)
    /\ batch = BatchIdle
    /\ codec = CodecIdle
    /\ root = RootIdle
    /\ environ = EnvironIdle
    /\ \E t \in DiskTrees :
          disk = [pc |-> "call", tree |-> t, hub_size |-> 0,
                  datasets_size |-> 0, total_size |-> 0]

NextSize == GetCacheStats

SpecSize == InitSize /\ [][NextSize]_vars

\* The regular files anywhere under a directory: the entries of the
\* directory and of the directories in it that are regular files themselves.
RegularFilesUnder(t, d) ==
    {p \in DiskPaths : Below(d, p) /\ t[p].kind = "file"}

RECURSIVE SumOfFiles(_, _)
SumOfFiles(t, S) ==
    IF S = {} THEN 0
    ELSE LET e == CHOOSE x \in S : TRUE IN t[e].size + SumOfFiles(t, S \ {e})

\* C12: the size found for a store is 0 when the store does not exist and
\* else the sum of the sizes of the regular files anywhere under it, each
\* counted once; directories and symbolic links add nothing.
C12_TotalBytes ==
    disk.pc = "returned" =>
        /\ disk.hub_size =
              IF disk.tree[hub_cache].kind = "none" THEN 0
              ELSE SumOfFiles(disk.tree, RegularFilesUnder(disk.tree, hub_cache))
        /\ disk.datasets_size =
              IF disk.tree[datasets_cache].kind = "none" THEN 0
              ELSE SumOfFiles(disk.tree,
                              RegularFilesUnder(disk.tree, datasets_cache))

-----------------------------------------------------------------------------
(* The layout of the cache root: __init__ on a file system, followed by    *)
(* clean, verify_offline_ready and print_cache_status in any order.        *)

\* The mutant of MkdirP without exist_ok: a directory that is there is an
\* error.
RECURSIVE MkdirP_NoExistOk(_, _)
MkdirP_NoExistOk(f, d) ==
    IF f[d] # "none" THEN [fs |-> f, raised |-> TRUE]
    ELSE IF Len(d) = 1 THEN [fs |-> [f EXCEPT ![d] = "dir"], raised |-> FALSE]
    ELSE LET up == MkdirP_NoExistOk(f, Parent(d))
         IN  IF f[Parent(d)] = "dir"
             THEN [fs |-> [f EXCEPT ![d] = "dir"], raised |-> FALSE]
             ELSE IF up.raised THEN up
             ELSE [fs |-> [up.fs EXCEPT ![d] = "dir"], raised |-> FALSE]

\* d.mkdir(parents=True, exist_ok=True): a directory that is there is left
\* alone, a regular file there or above is an error, missing parents are
\* made first.
RECURSIVE MkdirP(_, _)
MkdirP(f, d) ==
    IF f[d] = "dir" THEN [fs |-> f, raised |-> FALSE]
    ELSE IF f[d] = "file" THEN [fs |-> f, raised |-> TRUE]
    ELSE IF Len(d) = 1 THEN [fs |-> [f EXCEPT ![d] = "dir"], raised |-> FALSE]
    ELSE LET up == MkdirP(f, Parent(d))
         IN  IF up.raised THEN up
             ELSE [fs |-> [up.fs EXCEPT ![d] = "dir"], raised |-> FALSE]

\* The loop of __init__ over the five directories, ended by the first
\* error: the file system it leaves and the directories mkdir returned on,
\* made being those of the turns before.
RECURSIVE MkdirEach(_, _, _)
MkdirEach(f, q, made) ==
    IF q = <<>> THEN [fs |-> f, raised |-> FALSE, made |-> made]
    ELSE LET o == MkdirP(f, Head(q))
         IN  IF o.raised THEN [fs |-> o.fs, raised |-> TRUE, made |-> made]
             ELSE MkdirEach(o.fs, Tail(q), made \cup {Head(q)})

\* [hf_home, hub_cache, datasets_cache, assets_cache, xet_cache]
LayoutDirs(h) ==
    <<h, h \o <<s_hub>>, h \o <<s_datasets>>, h \o <<s_assets>>, h \o <<s_xet>>>>

\* HFCacheManager(hf_home=root.arg) on the file system.  A construction
\* that raises leaves no manager, and the directories its loop made before
\* the error stay; one that returns leaves a manager that clean, verify and
\* status are called on.
NewManager ==
    LET r == ResolveRoot(root.arg, root.env)
        o == IF r.raised THEN [fs |-> fs, raised |-> TRUE, made |-> {}]
             ELSE MkdirEach(fs, LayoutDirs(r.hf_home), {})
    IN  /\ fs' = o.fs
        /\ pre' = fs
        /\ last' = [op |-> "init", dry |-> FALSE, raised |-> o.raised, ret |-> 0]
        /\ prev' = Summary(last)
        /\ root' = [root EXCEPT
                      !.pc = IF o.raised THEN "raised" ELSE "constructed",
                      !.hf_home = r.hf_home,
                      !.made = o.made,
                      !.built = root.built \/ ~o.raised]
        /\ UNCHANGED <<batch, codec, disk, environ>>

\* hf.print_cache_status(): the models and the datasets it lists and the
\* lock files it counts; it writes nothing.
Status ==
    /\ root.built
    /\ pre' = fs
    /\ last' = [op |-> "status", dry |-> FALSE, raised |-> FALSE,
                ret |-> Cardinality(RGlob(fs, hf_home, s_lock)),
                models |-> SortedPaths(GlobPrefix(fs, hub_cache, s_models_dd)),
                datasets |-> SortedPaths({p \in Children(fs, datasets_cache) :
                                IsDir(fs, p) /\ ~StartsWith(Name(p), <<".">>)})]
    /\ prev' = Summary(last)
    /\ UNCHANGED <<fs, batch, codec, root, disk, environ>>

\* What the root holds before a manager is constructed over it.
LayoutCandidates ==
    { E(hf_home \o <<n_a_lock>>, "file"),
      E(hub_cache \o <<n_x_incomplete>>, "file"),
      E(hub_cache \o <<n_dsrepo_x>>, "dir"),
      E(hub_cache \o <<n_dsrepo_x, n_d_lock>>, "file"),
      E(hub_cache \o <<n_models_o_m>>, "dir"),
      E(datasets_cache \o <<n_o_d>>, "dir"),
      E(datasets_cache \o <<n_c_lock>>, "file") }

\* The file system f without the directories of gone and what is below
\* them, and with a regular file at the paths of filed whose directory is
\* still there.
Damaged(f, gone, filed) ==
    [p \in Paths |->
        IF \E d \in gone : p = d \/ Below(d, p) THEN "none"
        ELSE IF p \in filed THEN "file"
        ELSE IF \E d \in filed : Below(d, p) THEN "none"
        ELSE f[p]]

\* The path given to the constructor: "/h".
arg_home == <<"/", "h">>

\* The environment of the process: none of the variables __init__ reads,
\* or HF_HOME set to "/h".
NoEnvironment == [n \in EnvNames |-> None]

HomeEnvironment == [n \in EnvNames |-> IF n = "HF_HOME" THEN Some(arg_home) ELSE None]

\* How a manager comes to the root: by the constructor's argument, by
\* HF_HOME as main() does (it passes no argument), or not at all when
\* neither is there and no account is set.
Configurations ==
    { [arg |-> Some(arg_home), env |-> NoEnvironment],
      [arg |-> None, env |-> HomeEnvironment],
      [arg |-> None, env |-> NoEnvironment] }

\* A root that does not exist, one that lacks some of its directories, one
\* with a regular file where a directory belongs, and one that is whole:
\* each with the entries earlier runs left in the directories it has.
InitLayout ==
    /\ \E S \in Trees(LayoutCandidates), gone \in SUBSET CacheDirs,
          filed \in {{}, {hub_cache}, {xet_cache}} :
          fs = Damaged(MakeFs(S), gone, filed)
    /\ pre = fs
    /\ last = NoOperation
    /\ prev = Summary(NoOperation)
    /\ batch = BatchIdle
    /\ codec = CodecIdle
    /\ \E c \in Configurations :
          root = [pc |-> "call", arg |-> c.arg, env |-> c.env,
                  hf_home |-> <<>>, made |-> {}, built |-> FALSE]
    /\ disk = DiskIdle
    /\ environ = EnvironIdle

NextLayout ==
    \/ NewManager
    \/ root.built /\ \E dry \in BOOLEAN : Clean(dry)
    \/ root.built /\ \E dataset_name \in {None, Some(id_o_d)} :
                        Verify(id_o_m, dataset_name)
    \/ Status

SpecLayout == InitLayout /\ [][NextLayout]_vars

\* The root and its four subdirectories are there, as directories.
LayoutOk(f) == \A d \in CacheDirs : f[d] = "dir"

\* Nothing that was there is gone or has changed its kind.
RemovesNothing(f, g) == \A p \in Paths : f[p] # "none" => g[p] = f[p]

\* C13: once a manager has been constructed the root and its four
\* subdirectories exist, and they exist after every clean, verify, status
\* and construction that follows; a construction for which the root is
\* given (by the argument or by HF_HOME), over a root whose directories
\* are there already, with what they hold, is not an error, and no
\* construction removes anything.
C13_LayoutInvariant ==
    /\ [](root.built => LayoutOk(fs))
    /\ [][NewManager =>
            /\ RemovesNothing(fs, fs')
            /\ ( /\ Given(root.arg) \/ Given(root.env["HF_HOME"])
                 /\ \A d \in CacheDirs : fs[d] # "file" )
               => root'.pc = "constructed"]_vars

\* A manager was constructed over a root that held its directories and a
\* cached model, after a clean that removed stale artifacts.
C13_Witness ==
    /\ root.built
    /\ last.op = "init" /\ ~last.raised
    /\ prev.op = "clean" /\ ~prev.dry /\ prev.ret > 0
    /\ LayoutOk(pre)
    /\ Exists(fs, hub_cache \o <<n_models_o_m>>)

-----------------------------------------------------------------------------
(* download_from_file(): how one line of a manifest is read. *)

\* The longest body of a line, after its start.
MaxBodyLen == 5

\* How lines start: as entries, comments, dataset entries, and near misses
\* of the marker.
LineStarts ==
    { <<>>, <<" ">>, <<"#">>, <<" ", "#">>, <<"a", "#">>,
      s_dataset_colon, <<" ">> \o s_dataset_colon, <<"\t">> \o s_dataset_colon,
      s_datasets \o <<":">>, <<"d", "a", "t", "a", "s", "e", "t">>,
      <<"d", "a", "t", "a", "s", "e", "t", " ", ":">> }

\* The lines read: a start, then at most MaxBodyLen of "a", "," and " ".
ParseLines ==
    {st \o body : st \in LineStarts,
                  body \in {<<>>} \cup StringsUpTo({"a", ",", " "}, MaxBodyLen)}

\* A manifest of one line.
InitParse ==
    /\ fs = FsIdle
    /\ pre = FsIdle
    /\ last = NoOperation
    /\ prev = Summary(NoOperation)
    /\ \E line \in ParseLines :
          batch = [pc |-> "call", manifest |-> [kind |-> "file", text |-> line],
                   token |-> FALSE, lines |-> <<>>, i |-> 1, successes |-> 0,
                   failures |-> 0, calls |-> <<>>, ret |-> <<0, 0>>]
    /\ codec = CodecIdle
    /\ root = RootIdle
    /\ disk = DiskIdle
    /\ environ = BareEnviron

NextParse ==
    \/ DownloadFromFile_Enter
    \/ DownloadFromFile_Line
    \/ DownloadFromFile_Return

SpecParse == InitParse /\ [][NextParse]_vars

\* s without the whitespace at its two ends: from its first character that
\* is not whitespace to its last.
Trimmed(s) ==
    LET solid == {i \in DOMAIN s : ~IsSpace(s[i])}
    IN  IF solid = {} THEN <<>>
        ELSE SubSeq(s, CHOOSE i \in solid : \A j \in solid : i <= j,
                       CHOOSE i \in solid : \A j \in solid : j <= i)

\* The k-th of the fields the commas of s separate (k from 1), given that
\* s has that many: what lies between the (k-1)-th comma and the k-th.
CommaField(s, k) ==
    LET commas == {i \in DOMAIN s : s[i] = ","}
        before(i) == Cardinality({j \in commas : j < i})
    IN  SelectSeq([i \in DOMAIN s |-> <<s[i], before(i)>>],
                  LAMBDA x : x[1] # "," /\ x[2] = k - 1)

CommaCount(s) == Cardinality({i \in DOMAIN s : s[i] = ","})

\* The characters of a sequence of pairs.
Firsts(q) == [i \in DOMAIN q |-> q[i][1]]

\* What the fetch is to be given for field k of a dataset entry: nothing
\* when the field is missing or empty after trimming, else the field trimmed.
Unspecified(rest, k) ==
    CommaCount(rest) < k - 1 \/ Trimmed(Firsts(CommaField(rest, k))) = <<>>

\* The field k of a dataset entry as the fetch is to be given it.
FieldGiven(rest, k) ==
    IF Unspecified(rest, k) THEN None
    ELSE Some(Trimmed(Firsts(CommaField(rest, k))))

\* The call line k of the manifest is to make, given its trimmed text.
ReadsAs(c, tl) ==
    IF StartsWith(tl, s_dataset_colon)
    THEN LET rest == SubSeq(tl, Len(s_dataset_colon) + 1, Len(tl))
         IN  /\ c.kind = "dataset"
             /\ c.name = Trimmed(Firsts(CommaField(rest, 1)))
             /\ c.config = FieldGiven(rest, 2)
             /\ c.split = FieldGiven(rest, 3)
             /\ c.config # Some(<<>>) /\ c.split # Some(<<>>)
    ELSE c.kind = "model" /\ c.name = tl

\* C14: a line is skipped iff, trimmed, it is empty or starts with "#";
\* any other line makes one call: of the dataset fetch iff it starts with
\* "dataset:", with the name, the configuration and the split its commas
\* separate, a missing or empty configuration or split given as None and
\* never as the empty string; of the model fetch otherwise, with the whole
\* trimmed line as the identifier.
C14_LineParsing ==
    batch.pc \in {"loop", "returned"} =>
        \A k \in 1 .. (batch.i - 1) :
            LET tl == Trimmed(ManifestLines[k])
                made == {j \in DOMAIN batch.calls : batch.calls[j].line = k}
            IN  /\ made = {} <=> (tl = <<>> \/ Head(tl) = "#")
                /\ Cardinality(made) <= 1
                /\ \A j \in made : ReadsAs(batch.calls[j].call, tl)

\* A dataset entry whose configuration is blank and whose split is given
\* has been read.
C14_Witness ==
    /\ batch.pc = "returned"
    /\ batch.manifest.text = <<" ">> \o s_dataset_colon \o <<"a", ",", " ", ",", "a">>
    /\ Len(batch.calls) = 1
    /\ batch.calls[1].call.config = None
    /\ batch.calls[1].call.split = Some(<<"a">>)

-----------------------------------------------------------------------------
(* The count of clean() with and without dry_run. *)

\* C15: the count clean returns does not depend on dry_run: a clean that
\* completes right after a dry run, on the cache state the dry run read
\* and left as it was, returns the count the dry run returned.
C15_CountIndependentOfDryRun ==
    ( /\ CompletedClean(last)
      /\ prev.op = "clean" /\ prev.dry /\ ~prev.raised )
    => last.ret = prev.ret

-----------------------------------------------------------------------------
(* setup_environment(): the variables it writes to os.environ, and the     *)
(* fetches of download_model and download_dataset, which call it first.    *)

\* The most fetches of one run.
MaxFetches == 2

\* hf.setup_environment(offline)
SetupEnvironmentCall(offline) ==
    /\ environ' = [environ EXCEPT
                     !.vars = SetupEnvironment(environ.vars, offline),
                     !.call = [op |-> "setup_environment", offline |-> offline]]
    /\ UNCHANGED <<fs, pre, last, prev, batch, codec, root, disk>>

\* hf.download_model(model_name): setup_environment(offline=False), then
\* snapshot_download under the environment that leaves.
DownloadModelCall ==
    /\ Len(environ.fetches) < MaxFetches
    /\ \E outcome \in FetchOutcomes :
          environ' = AfterDownload(environ, "model", DownloadModel(outcome).ok)
    /\ UNCHANGED <<fs, pre, last, prev, batch, codec, root, disk>>

\* hf.download_dataset(dataset_name): the same with load_dataset.
DownloadDatasetCall ==
    /\ Len(environ.fetches) < MaxFetches
    /\ \E outcome \in FetchOutcomes :
          environ' = AfterDownload(environ, "dataset", DownloadDataset(outcome).ok)
    /\ UNCHANGED <<fs, pre, last, prev, batch, codec, root, disk>>

\* The environment the process starts with: each offline flag unset or
\* "0", and no cache variable set.
InitEnv ==
    /\ fs = FsIdle
    /\ pre = FsIdle
    /\ last = NoOperation
    /\ prev = Summary(NoOperation)
    /\ batch = BatchIdle
    /\ codec = CodecIdle
    /\ root = RootIdle
    /\ disk = DiskIdle
    /\ \E flags \in [OfflineFlags -> {None, Some(s_zero)}] :
          environ = [vars |-> [n \in EnvironNames |->
                                  IF n \in OfflineFlags THEN flags[n] ELSE None],
                     call |-> [op |-> "none", offline |-> FALSE],
                     fetches |-> <<>>]

NextEnv ==
    \/ \E offline \in BOOLEAN : SetupEnvironmentCall(offline)
    \/ DownloadModelCall
    \/ DownloadDatasetCall

SpecEnv == InitEnv /\ [][NextEnv]_vars

\* C16: once setup_environment(offline=False) has returned, none of the
\* three offline flags is "1", whatever calls came before; and every fetch
\* of download_model and download_dataset runs in online mode.
C16_OnlineRestored ==
    /\ (environ.call.op = "setup_environment" /\ ~environ.call.offline) =>
          \A n \in OfflineFlags : environ.vars[n] # Some(s_one)
    /\ \A j \in DOMAIN environ.fetches : ~environ.fetches[j].offline

=============================================================================
